---------------------------- MODULE Spec2Model ----------------------------
(***************************************************************************)
(* A model of nanobot's file system tools                                  *)
(* (src/nanobot/agent/tools/filesystem.py): _resolve_path,                 *)
(* _find_best_match and the read_file, write_file, edit_file and list_dir  *)
(* tools, over a small POSIX file system.                                  *)
(*                                                                         *)
(* A Python str is a sequence of one-character strings.  A message the     *)
(* code builds from literals is a sequence too: the part of a literal a    *)
(* prefix test may look at is spelled out character by character, the rest *)
(* of it is one multi-character token, and a number is its decimal token.  *)
(* A file on disk holds the characters that were stored, which are not     *)
(* always the characters read_text returns (see UniversalNewlines).        *)
(***************************************************************************)
EXTENDS Integers, Sequences, FiniteSets, TLC

VARIABLES
    fs,           \* the file system: node -> [kind, data]
    pre,          \* the file system as it was when the last call started
    call,         \* the last tool invocation: [tool, path, content, old_text, new_text]
    ret,          \* what the last invocation gave back: [kind, value]
    allowed_dir   \* self._allowed_dir of the tools: a path, or None

vars == <<fs, pre, call, ret, allowed_dir>>

---------------------------------------------------------------------------
(* Characters and Python's str operations                                  *)

LF == "\n"
CR == "\r"
SP == " "
TAB == "\t"
\* A byte that is not valid UTF-8: a file holding it cannot be decoded.
BAD == "0xff"

None == <<"None">>

Min(x, y) == IF x < y THEN x ELSE y
Max(x, y) == IF x > y THEN x ELSE y

\* s.startswith(p)
StartsWith(s, p) == Len(p) <= Len(s) /\ SubSeq(s, 1, Len(p)) = p

\* s[i-1:].startswith(p), i counted from 1
StartsAt(s, p, i) == i + Len(p) - 1 <= Len(s) /\ SubSeq(s, i, i + Len(p) - 1) = p

\* p in s
Contains(s, p) == \E i \in 1..(Len(s) - Len(p) + 1) : StartsAt(s, p, i)

\* s.find(p) + 1: the lowest start of p in s, 0 when there is none
Find(s, p) ==
    IF Contains(s, p)
    THEN CHOOSE i \in 1..(Len(s) - Len(p) + 1) :
            StartsAt(s, p, i) /\ \A j \in 1..(i - 1) : ~StartsAt(s, p, j)
    ELSE 0

RECURSIVE CountFrom(_, _, _)
CountFrom(s, p, i) ==
    IF i + Len(p) - 1 > Len(s) THEN 0
    ELSE IF StartsAt(s, p, i) THEN 1 + CountFrom(s, p, i + Len(p))
    ELSE CountFrom(s, p, i + 1)

\* s.count(p): occurrences that do not overlap, scanned from the left; the
\* empty string is counted once between any two characters and at both ends
Count(s, p) == IF p = <<>> THEN Len(s) + 1 ELSE CountFrom(s, p, 1)

\* s.replace(p, t, 1)
Replace1(s, p, t) ==
    IF p = <<>> THEN t \o s
    ELSE LET i == Find(s, p) IN
         IF i = 0 THEN s
         ELSE SubSeq(s, 1, i - 1) \o t \o SubSeq(s, i + Len(p), Len(s))

\* The characters str.splitlines ends a line at (of those the model uses) and
\* the ones str.rstrip removes.
IsLineBreak(c) == c \in {LF, CR}
IsSpace(c) == c \in {SP, TAB, LF, CR}

\* Whether a line of s ends with s[i]: at "\n", at a "\r" that no "\n"
\* follows ("\r\n" is one terminator), and at the end of s.
EndsLine(s, i) ==
    \/ i = Len(s)
    \/ s[i] = LF
    \/ (s[i] = CR /\ s[i + 1] # LF)

\* The lines of s[lo..hi], where a line starts at lo and one ends at hi.  The
\* range is cut at the end of the line through its middle rather than after its
\* first line, which gives the same lines and keeps the recursion shallow on a
\* text of hundreds of lines.
RECURSIVE LinesIn(_, _, _)
LinesIn(s, lo, hi) ==
    IF lo > hi THEN <<>>
    ELSE LET mid == (lo + hi) \div 2
             e   == CHOOSE i \in mid..hi :
                       EndsLine(s, i) /\ \A j \in mid..(i - 1) : ~EndsLine(s, j)
         IN IF e < hi THEN LinesIn(s, lo, e) \o LinesIn(s, e + 1, hi)
            ELSE LET b == CHOOSE i \in lo..mid :
                             /\ (i = lo \/ EndsLine(s, i - 1))
                             /\ \A j \in i..(mid - 1) : ~EndsLine(s, j)
                 IN IF b = lo THEN <<SubSeq(s, lo, hi)>>
                    ELSE LinesIn(s, lo, b - 1) \o <<SubSeq(s, b, hi)>>

\* s.splitlines(keepends=True)
SplitLines(s) == LinesIn(s, 1, Len(s))

\* s.rstrip()
RStrip(s) ==
    LET keep == {i \in 1..Len(s) : ~IsSpace(s[i])} IN
    IF keep = {} THEN <<>>
    ELSE SubSeq(s, 1, CHOOSE i \in keep : \A j \in keep : j <= i)

\* "".join(parts)
RECURSIVE Join(_)
Join(parts) ==
    IF parts = <<>> THEN <<>>
    ELSE IF Len(parts) = 1 THEN parts[1]
    ELSE LET h == Len(parts) \div 2 IN
         Join(SubSeq(parts, 1, h)) \o Join(SubSeq(parts, h + 1, Len(parts)))

\* sep.join(parts)
RECURSIVE JoinWith(_, _)
JoinWith(sep, parts) ==
    IF parts = <<>> THEN <<>>
    ELSE IF Len(parts) = 1 THEN Head(parts)
    ELSE Head(parts) \o sep \o JoinWith(sep, Tail(parts))

\* What a text-mode read gives for the stored characters: open() with
\* newline=None turns "\r\n" and a lone "\r" into "\n".
RECURSIVE UniversalNewlines(_)
UniversalNewlines(s) ==
    IF s = <<>> THEN <<>>
    ELSE IF s[1] = CR
         THEN IF Len(s) >= 2 /\ s[2] = LF
              THEN <<LF>> \o UniversalNewlines(SubSeq(s, 3, Len(s)))
              ELSE <<LF>> \o UniversalNewlines(Tail(s))
         ELSE <<s[1]>> \o UniversalNewlines(Tail(s))

\* What a text-mode write stores: "\n" becomes os.linesep, which is "\n" on
\* POSIX, and every other character is stored as it is.
StoredText(s) == s

---------------------------------------------------------------------------
(* Paths: pathlib's expanduser and resolve on a file system without        *)
(* symbolic links, and _resolve_path                                       *)

\* A path string is a sequence of characters; a node of the file system is
\* the sequence of the names on the way from "/" to it.
Home == <<"/", "h">>
Cwd == <<"/", "w">>

\* Path(path).expanduser(): a leading "~" component becomes the home directory
ExpandUser(path) ==
    IF path # <<>> /\ path[1] = "~" /\ (Len(path) = 1 \/ path[2] = "/")
    THEN Home \o Tail(path)
    ELSE path

\* The path made absolute against the working directory
Absolute(path) ==
    IF path # <<>> /\ path[1] = "/" THEN path ELSE Cwd \o <<"/">> \o path

\* The names between the slashes of s, the empty ones dropped
RECURSIVE SplitPath(_)
SplitPath(s) ==
    IF s = <<>> THEN <<>>
    ELSE IF s[1] = "/" THEN SplitPath(Tail(s))
    ELSE LET n == IF \E i \in 1..Len(s) : s[i] = "/"
                  THEN (CHOOSE i \in 1..Len(s) :
                           s[i] = "/" /\ \A j \in 1..(i - 1) : s[j] # "/") - 1
                  ELSE Len(s)
         IN <<SubSeq(s, 1, n)>> \o SplitPath(SubSeq(s, n + 1, Len(s)))

\* "." is dropped and ".." leaves the directory reached so far ("/.." is "/")
RECURSIVE Normalize(_, _)
Normalize(done, rest) ==
    IF rest = <<>> THEN done
    ELSE IF Head(rest) = <<".">> THEN Normalize(done, Tail(rest))
    ELSE IF Head(rest) = <<".", ".">>
         THEN Normalize(IF done = <<>> THEN <<>> ELSE SubSeq(done, 1, Len(done) - 1),
                        Tail(rest))
    ELSE Normalize(Append(done, Head(rest)), Tail(rest))

\* Path(path).expanduser().resolve(): the node the path names
Resolved(path) == Normalize(<<>>, SplitPath(Absolute(ExpandUser(path))))

\* str(node)
RECURSIVE PathStr(_)
PathStr(node) ==
    IF node = <<>> THEN <<"/">>
    ELSE IF Len(node) = 1 THEN <<"/">> \o node[1]
    ELSE PathStr(SubSeq(node, 1, Len(node) - 1)) \o <<"/">> \o node[Len(node)]

\* The test of line 13: the path is refused when a directory is configured
\* and str(resolved) does not start with str(allowed_dir.resolve())
Refused(path, adir) ==
    /\ adir # None
    /\ ~StartsWith(PathStr(Resolved(path)), PathStr(Resolved(adir)))

PermissionMsg(path, adir) ==
    <<"Path ">> \o path \o <<" is outside allowed directory ">> \o adir

\* _resolve_path: the node, or the PermissionError it raises
ResolvePath(path, adir) ==
    IF Refused(path, adir)
    THEN [exc |-> "PermissionError", msg |-> PermissionMsg(path, adir), node |-> <<>>]
    ELSE [exc |-> "none", msg |-> <<>>, node |-> Resolved(path)]

---------------------------------------------------------------------------
(* _find_best_match: difflib's longest matching block of lines, the diff   *)
(* of the region around it, and the hints                                  *)

\* The default of the max_context parameter and the cap on the diff's lines
MaxContext == 5
DiffCap == 30
\* difflib.SequenceMatcher's autojunk heuristic, which the call of line 27
\* leaves switched on: when the second sequence has at least AutojunkMinLen
\* elements, an element that occurs more than Len \div AutojunkDivisor + 1
\* times in it is "popular" and is left out of the index b2j.
AutojunkMinLen == 200
AutojunkDivisor == 100

Occurrences(b, elt) == Cardinality({j \in 1..Len(b) : b[j] = elt})

Popular(b) ==
    IF Len(b) >= AutojunkMinLen
    THEN {b[j] : j \in {k \in 1..Len(b) :
                          Occurrences(b, b[k]) > (Len(b) \div AutojunkDivisor) + 1}}
    ELSE {}

\* j2len of find_longest_match's loop at its end (i, j), both counted from 1:
\* the length of the run of equal, indexed (not popular) elements that ends
\* with a[i] and b[j]; 0 when b[j] is not under a[i] in b2j.
RunLen(a, b, pop, i, j) ==
    LET ks == {k \in 0..Min(i, j) :
                 \A t \in 0..(k - 1) : a[i - t] = b[j - t] /\ b[j - t] \notin pop}
    IN CHOOSE k \in ks : \A m \in ks : m <= k

\* The block the loop leaves in (besti, bestj, bestsize), indices from 0 as in
\* the code: i runs upwards, j runs upwards under it, and a run replaces the
\* best one only when it is strictly longer, so the first of the longest wins.
LoopBest(a, b) ==
    LET pop    == Popular(b)
        j2len  == [ij \in (1..Len(a)) \X (1..Len(b)) |->
                     RunLen(a, b, pop, ij[1], ij[2])]
        sizes  == {j2len[ij] : ij \in DOMAIN j2len} \cup {0}
        size   == CHOOSE k \in sizes : \A m \in sizes : m <= k
    IN IF size = 0 THEN [a |-> 0, b |-> 0, size |-> 0]
       ELSE LET longest == {ij \in DOMAIN j2len : j2len[ij] = size}
                i == CHOOSE x \in {ij[1] : ij \in longest} :
                        \A y \in {ij[1] : ij \in longest} : x <= y
                j == CHOOSE x \in {ij[2] : ij \in {o \in longest : o[1] = i}} :
                        \A y \in {ij[2] : ij \in {o \in longest : o[1] = i}} : x <= y
            IN [a |-> i - size, b |-> j - size, size |-> size]

\* The two loops after it, which extend the block over equal elements on each
\* side; no element is junk (isjunk is None), so a popular one extends it too.
ExtendBack(a, b, m) ==
    LET ds == {d \in 0..Min(m.a, m.b) :
                 \A t \in 1..d : a[m.a - t + 1] = b[m.b - t + 1]}
        d  == CHOOSE x \in ds : \A y \in ds : y <= x
    IN [a |-> m.a - d, b |-> m.b - d, size |-> m.size + d]

ExtendForward(a, b, m) ==
    LET room == Min(Len(a) - (m.a + m.size), Len(b) - (m.b + m.size))
        ds == {d \in 0..room :
                 \A t \in 1..d : a[m.a + m.size + t] = b[m.b + m.size + t]}
        d  == CHOOSE x \in ds : \A y \in ds : y <= x
    IN [a |-> m.a, b |-> m.b, size |-> m.size + d]

\* SequenceMatcher(None, a, b).find_longest_match(0, len(a), 0, len(b))
FindLongestMatch(a, b) == ExtendForward(a, b, ExtendBack(a, b, LoopBest(a, b)))

\* lines[lo:hi] of Python, lo and hi from 0
Slice(lines, lo, hi) == SubSeq(lines, lo + 1, Min(hi, Len(lines)))

\* f"  {i + 1}: {line}" for the first max_context lines
RECURSIVE Numbered(_, _)
Numbered(lines, n) ==
    IF lines = <<>> THEN <<>>
    ELSE <<"  ", ToString(n), ": ">> \o Head(lines) \o Numbered(Tail(lines), n + 1)

\* Preview without the [:max_context] slice: every line of the file is shown.
PreviewWholeFile(content_lines, max_context) ==
    <<"No matching lines found. File starts with:", LF>>
        \o Numbered(content_lines, 1)

Preview(content_lines, max_context) ==
    <<"No matching lines found. File starts with:", LF>>
        \o Numbered(Slice(content_lines, 0, max_context), 1)

\* difflib.unified_diff(region, old_lines, ...): nothing when the two are
\* equal, else the two header lines and the hunks.  The hunks' text is not
\* rendered: one token stands for each side of them.
UnifiedDiff(region, old_lines) ==
    IF region = old_lines THEN <<>>
    ELSE << <<"--- file (closest region)">>, <<"+++ old_text (your input)">>,
            <<"@@ region @@">> \o Join(region), <<"@@ old_text @@">> \o Join(old_lines) >>

\* The first pair of zip(content_lines[best.a:], old_lines) that is equal
\* once stripped and differs as it is, 0 when there is none
WhitespaceHintAt(content_lines, old_lines, best) ==
    LET n    == Min(Len(content_lines) - best.a, Len(old_lines))
        hits == {i \in 0..(n - 1) :
                    /\ RStrip(content_lines[best.a + i + 1]) = RStrip(old_lines[i + 1])
                    /\ content_lines[best.a + i + 1] # old_lines[i + 1]}
    IN IF hits = {} THEN 0
       ELSE best.a + (CHOOSE i \in hits : \A j \in hits : i <= j) + 1

CRLF == <<CR, LF>>

Hints(content, old_text, content_lines, old_lines, best) ==
    LET at == WhitespaceHintAt(content_lines, old_lines, best) IN
    (IF at = 0 THEN <<>>
     ELSE << <<"Line ", ToString(at), ": trailing whitespace differs">> >>)
    \o (IF Contains(content, CRLF) /\ ~Contains(old_text, CRLF)
        THEN << <<"File uses CRLF line endings but old_text uses LF">> >>
        ELSE IF ~Contains(content, CRLF) /\ Contains(old_text, CRLF)
        THEN << <<"File uses LF line endings but old_text uses CRLF">> >>
        ELSE <<>>)

FindBestMatch(content, old_text, max_context) ==
    LET old_lines     == SplitLines(old_text)
        content_lines == SplitLines(content)
    IN IF old_lines = <<>> \/ content_lines = <<>> THEN <<>>
       ELSE LET best == FindLongestMatch(content_lines, old_lines) IN
            IF best.size = 0 THEN Preview(content_lines, max_context)
            ELSE LET start  == Max(0, best.a - max_context)
                     end    == Min(Len(content_lines), best.a + best.size + max_context)
                     region == Slice(content_lines, start, end)
                     diff   == UnifiedDiff(region, old_lines)
                     diff_text == JoinWith(<<LF>>, Slice(diff, 0, DiffCap))
                     hints  == Hints(content, old_text, content_lines, old_lines, best)
                     parts  == << <<"Closest match near line ", ToString(best.a + 1), ":">> >>
                               \o (IF diff_text # <<>> THEN <<diff_text>> ELSE <<>>)
                               \o (IF hints # <<>>
                                   THEN << <<"Hints: ">> \o JoinWith(<<"; ">>, hints) >>
                                   ELSE <<>>)
                 IN JoinWith(<<LF>>, parts)

---------------------------------------------------------------------------
(* The file system and the four tools                                      *)

NoEntry == [kind |-> "none", data |-> <<>>]
Dir == [kind |-> "dir", data |-> <<>>]
File(data) == [kind |-> "file", data |-> data]

Exists(fsys, n) == n \in DOMAIN fsys /\ fsys[n].kind # "none"
Parent(n) == IF n = <<>> THEN <<>> ELSE SubSeq(n, 1, Len(n) - 1)
\* The directories above n, "/" included
Ancestors(n) == {SubSeq(n, 1, k) : k \in 0..(Len(n) - 1)}

Returned(v) == [kind |-> "return", value |-> v]
Raised(exc) == [kind |-> "raise", value |-> <<exc>>]

ErrorColon == <<"E", "r", "r", "o", "r", ":", " ">>
ErrorSpace == <<"E", "r", "r", "o", "r", " ">>
WarningColon == <<"W", "a", "r", "n", "i", "n", "g", ":", " ">>

\* Catch with the "except Exception" clause left out: only a PermissionError
\* is turned into a string, any other exception leaves execute.
CatchPermissionOnly(exc, msg, doing) ==
    IF exc = "PermissionError" THEN Returned(ErrorColon \o msg)
    ELSE Raised(exc)

\* The two except clauses every execute ends with: a PermissionError is
\* returned as "Error: <e>", any other Exception as "Error <doing>: <e>".
Catch(exc, msg, doing) ==
    IF exc = "PermissionError" THEN Returned(ErrorColon \o msg)
    ELSE Returned(ErrorSpace \o <<doing>> \o msg)

NotFoundMsg(what, path) == ErrorColon \o <<what>> \o path

\* ReadFileTool.execute
ReadExecute(fsys, adir, path) ==
    LET r == ResolvePath(path, adir) IN
    IF r.exc # "none" THEN Catch(r.exc, r.msg, "reading file: ")
    ELSE IF ~Exists(fsys, r.node) THEN Returned(NotFoundMsg("File not found: ", path))
    ELSE IF fsys[r.node].kind # "file" THEN Returned(NotFoundMsg("Not a file: ", path))
    ELSE IF \E i \in 1..Len(fsys[r.node].data) : fsys[r.node].data[i] = BAD
    THEN Catch("UnicodeDecodeError", <<"'utf-8' codec can't decode byte 0xff">>,
               "reading file: ")
    ELSE Returned(UniversalNewlines(fsys[r.node].data))

\* file_path.parent.mkdir(parents=True, exist_ok=True): the exception and the
\* file system after.  It fails where the lowest existing directory above the
\* file turns out to be a file, before anything is made.
MkdirParents(fsys, n) ==
    IF \E a \in Ancestors(n) : fsys[a].kind = "file"
    THEN [exc |-> IF fsys[Parent(n)].kind = "file" THEN "FileExistsError"
                  ELSE "NotADirectoryError",
          msg |-> <<"[Errno 17/20] ">> \o PathStr(Parent(n)), fs |-> fsys]
    ELSE [exc |-> "none", msg |-> <<>>,
          fs |-> [m \in DOMAIN fsys |->
                    IF m \in Ancestors(n) /\ fsys[m].kind = "none" THEN Dir
                    ELSE fsys[m]]]

\* file_path.write_text(content, encoding="utf-8")
WriteText(fsys, n, content) ==
    IF fsys[n].kind = "dir"
    THEN [exc |-> "IsADirectoryError",
          msg |-> <<"[Errno 21] Is a directory: ">> \o PathStr(n), fs |-> fsys]
    ELSE [exc |-> "none", msg |-> <<>>,
          fs |-> [fsys EXCEPT ![n] = File(StoredText(content))]]

\* WriteFileTool.execute: what it returns and the file system it leaves
WriteExecute(fsys, adir, path, content) ==
    LET r == ResolvePath(path, adir) IN
    IF r.exc # "none"
    THEN [ret |-> Catch(r.exc, r.msg, "writing file: "), fs |-> fsys]
    ELSE LET d == MkdirParents(fsys, r.node) IN
         IF d.exc # "none"
         THEN [ret |-> Catch(d.exc, d.msg, "writing file: "), fs |-> d.fs]
         ELSE LET w == WriteText(d.fs, r.node, content) IN
              IF w.exc # "none"
              THEN [ret |-> Catch(w.exc, w.msg, "writing file: "), fs |-> w.fs]
              ELSE [ret |-> Returned(<<"Successfully wrote ", ToString(Len(content)),
                                       " bytes to ">> \o path),
                    fs |-> w.fs]

NoMatchMsg(path, content, old_text) ==
    ErrorColon \o <<"old_text not found in ">> \o path \o <<".", LF>>
        \o <<"old_text has ", ToString(Len(SplitLines(old_text))), " lines; ">>
        \o <<"file has ", ToString(Len(SplitLines(content))), " lines.", LF>>
        \o FindBestMatch(content, old_text, MaxContext)

AmbiguousMsg(path, count) ==
    WarningColon \o <<"old_text appears ", ToString(count), " times in ">> \o path
        \o <<". Please provide more surrounding context to make the match unique.">>

EditedMsg(path) == <<"Successfully edited ">> \o path

\* EditFileTool.execute: what it returns and the file system it leaves
EditExecute(fsys, adir, path, old_text, new_text) ==
    LET r == ResolvePath(path, adir) IN
    IF r.exc # "none"
    THEN [ret |-> Catch(r.exc, r.msg, "editing file: "), fs |-> fsys]
    ELSE IF ~Exists(fsys, r.node)
    THEN [ret |-> Returned(NotFoundMsg("File not found: ", path)), fs |-> fsys]
    ELSE IF fsys[r.node].kind = "dir"
    THEN [ret |-> Catch("IsADirectoryError",
                        <<"[Errno 21] Is a directory: ">> \o PathStr(r.node),
                        "editing file: "),
          fs |-> fsys]
    ELSE IF \E i \in 1..Len(fsys[r.node].data) : fsys[r.node].data[i] = BAD
    THEN [ret |-> Catch("UnicodeDecodeError", <<"'utf-8' codec can't decode byte 0xff">>,
                        "editing file: "),
          fs |-> fsys]
    ELSE LET content == UniversalNewlines(fsys[r.node].data) IN
         IF ~Contains(content, old_text)
         THEN [ret |-> Returned(NoMatchMsg(path, content, old_text)), fs |-> fsys]
         ELSE IF Count(content, old_text) > 1
         THEN [ret |-> Returned(AmbiguousMsg(path, Count(content, old_text))), fs |-> fsys]
         ELSE LET new_content == Replace1(content, old_text, new_text)
                  w == WriteText(fsys, r.node, new_content)
              IN [ret |-> Returned(EditedMsg(path)), fs |-> w.fs]

\* The code points of the characters file names are made of
CharCode(c) ==
    CASE c = "." -> 46 [] c = "b" -> 98 [] c = "d" -> 100 [] c = "f" -> 102
      [] c = "g" -> 103 [] c = "h" -> 104 [] c = "n" -> 110 [] c = "w" -> 119 [] c = "x" -> 120
      [] OTHER -> 126

\* x < y for two names, as str compares them
RECURSIVE NameLess(_, _)
NameLess(x, y) ==
    IF y = <<>> THEN FALSE
    ELSE IF x = <<>> THEN TRUE
    ELSE IF CharCode(x[1]) # CharCode(y[1]) THEN CharCode(x[1]) < CharCode(y[1])
    ELSE NameLess(Tail(x), Tail(y))

\* sorted(dir_path.iterdir()), as the nodes
RECURSIVE SortedNodes(_)
SortedNodes(S) ==
    IF S = {} THEN <<>>
    ELSE LET m == CHOOSE x \in S :
                     \A y \in S \ {x} : NameLess(x[Len(x)], y[Len(y)])
         IN <<m>> \o SortedNodes(S \ {m})

Children(fsys, d) ==
    {n \in DOMAIN fsys : n # <<>> /\ Parent(n) = d /\ fsys[n].kind # "none"}

\* ListDirTool.execute
ListExecute(fsys, adir, path) ==
    LET r == ResolvePath(path, adir) IN
    IF r.exc # "none" THEN Catch(r.exc, r.msg, "listing directory: ")
    ELSE IF ~Exists(fsys, r.node)
    THEN Returned(NotFoundMsg("Directory not found: ", path))
    ELSE IF fsys[r.node].kind # "dir"
    THEN Returned(NotFoundMsg("Not a directory: ", path))
    ELSE LET sorted == SortedNodes(Children(fsys, r.node))
             items  == [i \in 1..Len(sorted) |->
                          <<IF fsys[sorted[i]].kind = "dir" THEN "U+1F4C1 " ELSE "U+1F4C4 ">>
                              \o sorted[i][Len(sorted[i])]]
         IN IF items = <<>> THEN Returned(<<"Directory ">> \o path \o <<" is empty">>)
            ELSE Returned(JoinWith(<<LF>>, items))

---------------------------------------------------------------------------
(* The state machine                                                       *)

\* Bounds of the inputs
MaxLen == 3         \* characters of a content written in Spec
MaxOldLen == 2      \* characters of an old_text in Spec
MaxToolLen == 1     \* characters of a text in SpecTools
MaxLines == 3       \* chunks of a text in SpecMatch
ExtraLines == 2     \* lines past max_context of the long contents in SpecMatch
MaxLinesLong == 2   \* chunks of a content matched with a long old_text in SpecMatch

\* All strings of at most n characters of chars
Strings(chars, n) == UNION {[1..k -> chars] : k \in 0..n}

\* The path strings the tools are called with
PathMain == <<"/", "w", "/", "f">>
Paths ==
    { PathMain,
      <<"f">>,
      <<"/", "w">>,
      <<"/", "w", "/", "d">>,
      <<"/", "w", "/", "b">>,
      <<"/", "w", "/", "n", "/", "g">>,
      <<"/", "w", "/", ".", ".", "/", "w", "x", "/", "f">>,
      <<"/", "w", "x", "/", "f">>,
      <<"~", "/", "f">> }

AllowedRoot == <<"/", "w">>

Nodes == UNION {{SubSeq(Resolved(p), 1, k) : k \in 0..Len(Resolved(p))} : p \in Paths}

\* The file system the tools start on: the allowed directory /w with a
\* directory d and a file b that is not UTF-8, its sibling /wx with a file f,
\* and the home directory /h with a file f.
InitFs ==
    [n \in Nodes |->
        IF n \in {<<>>, << <<"w">> >>, << <<"w">>, <<"d">> >>, << <<"w", "x">> >>,
                  << <<"h">> >>}
        THEN Dir
        ELSE IF n = << <<"w">>, <<"b">> >> THEN File(<<BAD>>)
        ELSE IF n = << <<"w", "x">>, <<"f">> >> THEN File(<<"a">>)
        ELSE IF n = << <<"h">>, <<"f">> >> THEN File(<<"a">>)
        ELSE NoEntry]

NoCall == [tool |-> "none", path |-> <<>>, content |-> <<>>, old_text |-> <<>>,
           new_text |-> <<>>]

\* The tools are constructed with the allowed directory /w.
Init ==
    /\ fs = InitFs
    /\ pre = InitFs
    /\ call = NoCall
    /\ ret = Returned(<<>>)
    /\ allowed_dir = AllowedRoot

ReadFile(paths) ==
    \E p \in paths :
        /\ call' = [NoCall EXCEPT !.tool = "read_file", !.path = p]
        /\ pre' = fs
        /\ ret' = ReadExecute(fs, allowed_dir, p)
        /\ UNCHANGED <<fs, allowed_dir>>

WriteFile(paths, contents) ==
    \E p \in paths, c \in contents :
        \E out \in {WriteExecute(fs, allowed_dir, p, c)} :
        /\ call' = [NoCall EXCEPT !.tool = "write_file", !.path = p, !.content = c]
        /\ pre' = fs
        /\ ret' = out.ret
        /\ fs' = out.fs
        /\ UNCHANGED allowed_dir

EditFile(paths, olds, news) ==
    \E p \in paths, o \in olds, n \in news :
        \E out \in {EditExecute(fs, allowed_dir, p, o, n)} :
        /\ call' = [NoCall EXCEPT !.tool = "edit_file", !.path = p, !.old_text = o,
                                  !.new_text = n]
        /\ pre' = fs
        /\ ret' = out.ret
        /\ fs' = out.fs
        /\ UNCHANGED allowed_dir

ListDir(paths) ==
    \E p \in paths :
        /\ call' = [NoCall EXCEPT !.tool = "list_dir", !.path = p]
        /\ pre' = fs
        /\ ret' = ListExecute(fs, allowed_dir, p)
        /\ UNCHANGED <<fs, allowed_dir>>

\* A call of _find_best_match itself, with the default max_context, on the
\* content and the old_text the initial state holds
BestMatch ==
    /\ call.tool = "pending"
    /\ call' = [call EXCEPT !.tool = "_find_best_match"]
    /\ pre' = fs
    /\ ret' = Returned(FindBestMatch(call.content, call.old_text, MaxContext))
    /\ UNCHANGED <<fs, allowed_dir>>

\* Spec: the read, write and edit tools on one file of the allowed directory,
\* with contents of every line ending.
EditChars == {"a", CR, LF}
FileTexts == Strings(EditChars, MaxLen)
OldTexts == Strings(EditChars, MaxOldLen)
NewTexts == {<<>>, <<"b">>}

Next ==
    \/ ReadFile({PathMain})
    \/ WriteFile({PathMain}, FileTexts)
    \/ EditFile({PathMain}, OldTexts, NewTexts)

Spec == Init /\ [][Next]_vars

\* SpecTools: the four tools on every path, with short texts.
ToolTexts == Strings({"a"}, MaxToolLen)
ToolOlds == {<<>>, <<"a">>}
ToolNews == {<<>>, <<"a">>}

NextTools ==
    \/ ReadFile(Paths)
    \/ WriteFile(Paths, ToolTexts)
    \/ EditFile(Paths, ToolOlds, ToolNews)
    \/ ListDir(Paths)

SpecTools == Init /\ [][NextTools]_vars

\* SpecMatch: _find_best_match on texts made of a few chunks, on contents of
\* more than max_context lines, and on old texts long enough for difflib's
\* autojunk heuristic.
Chunks == {<<"a", LF>>, <<"b", LF>>, <<"b", SP, LF>>}
ChunkTexts(n) == {Join(cs) : cs \in UNION {[1..k -> Chunks] : k \in 0..n}}
Repeated(chunk, n) == Join([i \in 1..n |-> chunk])
LongContents ==
    {Repeated(c, n) : c \in Chunks, n \in (MaxContext + 1)..(MaxContext + ExtraLines)}
LongOlds == {c \o Repeated(d, AutojunkMinLen - 1) : c \in Chunks, d \in Chunks}
MatchInputs ==
    ((ChunkTexts(MaxLines) \cup LongContents) \X ChunkTexts(MaxLines))
        \cup (ChunkTexts(MaxLinesLong) \X LongOlds)

InitMatch ==
    /\ fs = InitFs
    /\ pre = InitFs
    /\ call \in {[NoCall EXCEPT !.tool = "pending", !.content = io[1], !.old_text = io[2]] :
                   io \in MatchInputs}
    /\ ret = Returned(<<>>)
    /\ allowed_dir = AllowedRoot

NextMatch == BestMatch

SpecMatch == InitMatch /\ [][NextMatch]_vars

---------------------------------------------------------------------------
(* The claims                                                              *)

Tools == {"read_file", "write_file", "edit_file", "list_dir"}

\* The node the last call named and what was there when it started
Target == Resolved(call.path)
Before == pre[Target]
Decodable(data) == \A i \in 1..Len(data) : data[i] # BAD

\* A node is the root or below it: its names start with the root's names
Inside(node, root) == Len(node) >= Len(root) /\ SubSeq(node, 1, Len(root)) = root

HasToken(s, tok) == \E i \in 1..Len(s) : s[i] = tok
HasTokens(s, toks) == \E i \in 1..(Len(s) - Len(toks) + 1) : StartsAt(s, toks, i)

\* The places where S starts in C, one after another or overlapping
StartPositions(C, S) == {i \in 1..(Len(C) - Len(S) + 1) : StartsAt(C, S, i)}

EditOfFile ==
    /\ call.tool = "edit_file"
    /\ Target \in DOMAIN pre
    /\ Before.kind = "file"
    /\ Decodable(Before.data)

\* C1: an edit of a file that holds C, with an old_text that occurs exactly
\* once in C, reports success and leaves C with that occurrence replaced by
\* new_text, the text before and after it unchanged.
C1_UniqueOccurrenceReplaced ==
    (EditOfFile /\ Cardinality(StartPositions(Before.data, call.old_text)) = 1)
    => LET C == Before.data
           i == CHOOSE x \in StartPositions(C, call.old_text) : TRUE
       IN /\ ret = Returned(EditedMsg(call.path))
          /\ fs[Target].data =
                SubSeq(C, 1, i - 1) \o call.new_text
                    \o SubSeq(C, i + Len(call.old_text), Len(C))

\* C2: an edit with an old_text that occurs two or more times in the file's
\* content C writes nothing and reports the count C.count(old_text).
C2_AmbiguousLeavesFileAndReportsCount ==
    (EditOfFile /\ Count(Before.data, call.old_text) >= 2)
    => /\ fs = pre
       /\ ret = Returned(AmbiguousMsg(call.path, Count(Before.data, call.old_text)))

\* C3: with an allowed directory configured, a call whose path resolves
\* outside it (to neither the directory nor a descendant) is answered with the
\* PermissionError and touches nothing, and a call whose path resolves inside
\* it is not refused.
PermissionDenied == Returned(ErrorColon \o PermissionMsg(call.path, allowed_dir))

C3_OutsideRootIsDenied ==
    (call.tool \in Tools /\ allowed_dir # None)
    => IF Inside(Target, Resolved(allowed_dir))
       THEN ret # PermissionDenied
       ELSE ret = PermissionDenied /\ fs = pre

\* How the last call of a tool ended, read from the file system it started on
Outcome ==
    IF Refused(call.path, allowed_dir) THEN "PermissionDenied"
    ELSE IF call.tool = "write_file"
    THEN IF (\E a \in Ancestors(Target) : pre[a].kind = "file") \/ Before.kind = "dir"
         THEN "Fault" ELSE "Success"
    ELSE IF Before.kind = "none" THEN "NotFound"
    ELSE IF call.tool = "list_dir"
    THEN IF Before.kind = "file" THEN "NotADirectory" ELSE "Success"
    ELSE IF call.tool = "read_file" /\ Before.kind = "dir" THEN "NotAFile"
    ELSE IF Before.kind = "dir" \/ ~Decodable(Before.data) THEN "Fault"
    ELSE IF call.tool = "read_file" THEN "Success"
    ELSE IF StartPositions(UniversalNewlines(Before.data), call.old_text) = {}
    THEN "NoMatch"
    ELSE IF Count(UniversalNewlines(Before.data), call.old_text) > 1
    THEN "AmbiguousMatch"
    ELSE "Success"

Doing ==
    CASE call.tool = "read_file" -> "reading file: "
      [] call.tool = "write_file" -> "writing file: "
      [] call.tool = "edit_file" -> "editing file: "
      [] OTHER -> "listing directory: "

\* C4 as stated: every call of a tool returns a string, and every outcome
\* other than success is a string that begins with "Error: ".
C4_EveryFailureStartsWithErrorColon ==
    call.tool \in Tools
    => /\ ret.kind = "return"
       /\ Outcome # "Success" => StartsWith(ret.value, ErrorColon)

\* C4, amended: every call of a tool returns a string; NotFound, NotAFile,
\* NotADirectory, PermissionDenied and NoMatch begin with "Error: ", an
\* AmbiguousMatch begins with "Warning: ", and any other caught fault begins
\* with "Error reading file: ", "Error writing file: ", "Error editing file: "
\* or "Error listing directory: ".
C4_FailuresAreReturnedStrings ==
    call.tool \in Tools
    => /\ ret.kind = "return"
       /\ Outcome \in {"PermissionDenied", "NotFound", "NotAFile", "NotADirectory",
                       "NoMatch"}
            => StartsWith(ret.value, ErrorColon)
       /\ Outcome = "AmbiguousMatch" => StartsWith(ret.value, WarningColon)
       /\ Outcome = "Fault" => StartsWith(ret.value, ErrorSpace \o <<Doing>>)

\* An edit that found old_text more than once has answered with the warning.
C4_Witness ==
    /\ call.tool = "edit_file"
    /\ Outcome = "AmbiguousMatch"
    /\ StartsWith(ret.value, WarningColon)

\* The reading of content and old_text that _find_best_match works on
MatchCall == call.tool = "_find_best_match" /\ ~Contains(call.content, call.old_text)
FileLines == SplitLines(call.content)
OldLines == SplitLines(call.old_text)
SharedLine == \E i \in 1..Len(FileLines), j \in 1..Len(OldLines) : FileLines[i] = OldLines[j]

\* Whether the k lines from file line i and from old_text line j are the same
CommonRun(i, j, k) == \A t \in 0..(k - 1) : FileLines[i + t] = OldLines[j + t]
RunStarts(k) ==
    {i \in 1..(Len(FileLines) - k + 1) :
        \E j \in 1..(Len(OldLines) - k + 1) : CommonRun(i, j, k)}
LongestRun ==
    CHOOSE k \in 1..Len(FileLines) :
        RunStarts(k) # {} /\ \A m \in (k + 1)..Len(FileLines) : RunStarts(m) = {}
LongestRunLine == CHOOSE i \in RunStarts(LongestRun) : \A o \in RunStarts(LongestRun) : i <= o

\* C5: when old_text is not in the content and the two share a line, the
\* diagnostic names, in "Closest match near line L", the first line of the
\* longest run of lines common to both, the leftmost in the file among the
\* longest; L is between 1 and the number of lines of the file.
C5_ClosestMatchLine ==
    (MatchCall /\ FileLines # <<>> /\ OldLines # <<>> /\ SharedLine)
    => /\ StartsWith(ret.value,
                     <<"Closest match near line ", ToString(LongestRunLine), ":">>)
       /\ LongestRunLine \in 1..Len(FileLines)

\* The fallback of the diagnostic: the head line and the first min(5, n) lines
\* of the file, numbered from 1, and no diff
PreviewShown ==
    LET n == Min(5, Len(FileLines)) IN
    /\ ret.value = <<"No matching lines found. File starts with:", LF>>
                     \o Join([i \in 1..n |-> <<"  ", ToString(i), ": ">> \o FileLines[i]])
    /\ ~HasToken(ret.value, "--- file (closest region)")

\* C6 as stated: when old_text is not in the content and either of the two has
\* no line or they share none, the diagnostic is that fallback.
C6_FallbackWithoutCommonLine ==
    (MatchCall /\ (FileLines = <<>> \/ OldLines = <<>> \/ ~SharedLine))
    => PreviewShown

\* C6, amended: when old_text is not in the content, both have a line and they
\* share none, the diagnostic is that fallback; when the content has no line
\* the diagnostic is empty.
C6_FallbackWhenBothHaveLines ==
    MatchCall
    => /\ (FileLines # <<>> /\ OldLines # <<>> /\ ~SharedLine) => PreviewShown
       /\ FileLines = <<>> => ret.value = <<>>

\* A content of more than five lines that shares no line with old_text has
\* been answered with the fallback.
C6_Witness ==
    /\ MatchCall
    /\ Len(FileLines) > 5
    /\ OldLines # <<>>
    /\ ~SharedLine
    /\ PreviewShown

\* C8: a read that follows a successful write of W to the same path, with
\* nothing in between, returns W.
C8_WriteThenReadRoundTrip ==
    [][(/\ call.tool = "write_file"
        /\ StartsWith(ret.value, <<"Successfully wrote ">>)
        /\ call'.tool = "read_file"
        /\ call'.path = call.path)
       => ret' = Returned(call.content)]_vars

CrlfHint == "File uses CRLF line endings but old_text uses LF"
LfHint == "File uses LF line endings but old_text uses CRLF"
NoMatchEdit ==
    EditOfFile /\ StartsWith(ret.value, ErrorColon \o <<"old_text not found in ">>)

\* C7: in a NoMatch edit of a file that has a CRLF where old_text has none, the
\* diagnostic has the CRLF-against-LF hint; in the opposite case it has the
\* reverse hint; it never has both.
C7_LineEndingHint ==
    NoMatchEdit
    => /\ (Contains(Before.data, CRLF) /\ ~Contains(call.old_text, CRLF))
            => HasToken(ret.value, CrlfHint)
       /\ (~Contains(Before.data, CRLF) /\ Contains(call.old_text, CRLF))
            => HasToken(ret.value, LfHint)
       /\ ~(HasToken(ret.value, CrlfHint) /\ HasToken(ret.value, LfHint))

\* The offsets i at which file line a+i and old_text line b+i, counted from the
\* start (a, b) of the match, are equal once stripped and differ as they are
MatchSpan == FindLongestMatch(FileLines, OldLines)
StrippedOnlyOffsets ==
    {i \in 0..Len(FileLines) :
        /\ MatchSpan.a + i < Len(FileLines)
        /\ MatchSpan.b + i < Len(OldLines)
        /\ RStrip(FileLines[MatchSpan.a + i + 1]) = RStrip(OldLines[MatchSpan.b + i + 1])
        /\ FileLines[MatchSpan.a + i + 1] # OldLines[MatchSpan.b + i + 1]}
WhitespaceHints == {i \in 1..Len(ret.value) : ret.value[i] = ": trailing whitespace differs"}

\* C9: in a NoMatch diagnostic with a match of at least one line, the
\* trailing-whitespace hint is there exactly when such an offset exists, once,
\* and it names file line a+i+1 for the smallest such i.
C9_TrailingWhitespaceHint ==
    (MatchCall /\ FileLines # <<>> /\ OldLines # <<>> /\ MatchSpan.size > 0)
    => IF StrippedOnlyOffsets = {} THEN WhitespaceHints = {}
       ELSE LET i == CHOOSE x \in StrippedOnlyOffsets :
                        \A y \in StrippedOnlyOffsets : x <= y
            IN /\ Cardinality(WhitespaceHints) = 1
               /\ HasTokens(ret.value, <<"Line ", ToString(MatchSpan.a + i + 1),
                                         ": trailing whitespace differs">>)

\* C10: an edit writes only when old_text starts at exactly one place of the
\* content: with two or more starts, overlapping ones and the empty old_text
\* included, the file is left as it was.
C10_SeveralStartsLeaveFile ==
    (EditOfFile /\ Cardinality(StartPositions(Before.data, call.old_text)) >= 2)
    => fs = pre

=============================================================================
